---- MODULE Spec2Model ----
(***************************************************************************)
(* streamchat (rust_03): a two-party chat over one TCP connection.  The    *)
(* parties run a Diffie-Hellman exchange (mod_exp), seed LCG keystreams    *)
(* from the shared secret and exchange XOR-encrypted, length-prefixed      *)
(* frames.                                                                  *)
(*                                                                          *)
(* Integer widths.  TLC's integers are 32-bit signed, so                    *)
(*   - the u64 of the key exchange is modelled at WordBits bits (U64 is     *)
(*     the model's 2^64, U128 = U64*U64 the model's 2^128, P a modulus just *)
(*     below U64 as in the source);                                         *)
(*   - the u32 LCG state is kept at its full 32 bits, as two 16-bit limbs   *)
(*     (state_hi, state_lo), and the wrapping multiply-add is computed limb *)
(*     by limb so that no intermediate value leaves TLC's range.            *)
(***************************************************************************)
EXTENDS Integers, Sequences, FiniteSets, TLC

\* ---------------------------------------------------------------- bounds
WordBits == 4
MaxPriv == 3
MaxLines == 3
MaxAdvance == 2
MaxLen == 2
MaxFrames == 2
MaxCalls == 3
MaxCells == 6
MaxFaults == 2

\* ------------------------------------------------------ program constants
G == 2
LCG_A == 1103515245
LCG_C == 12345
PreviewLen == 14
KeyLen == 8
LenPrefix == 4

U64 == 2^WordBits
U128 == U64 * U64
P == U64 - 3

Limb == 2^16
NoValue == 0 - 1

\* ----------------------------------------------------------- byte helpers
RECURSIVE XorBits(_, _, _)
XorBits(a, b, n) ==
    IF n = 0 THEN 0
    ELSE (((a % 2) + (b % 2)) % 2) + 2 * XorBits(a \div 2, b \div 2, n - 1)

\* p ^ k on u8
Xor(p, k) == XorBits(p, k, 8)

\* v.to_be_bytes() for an n-byte unsigned integer
RECURSIVE to_be_bytes(_, _)
to_be_bytes(v, n) ==
    IF n = 0 THEN << >> ELSE Append(to_be_bytes(v \div 256, n - 1), v % 256)

\* uN::from_be_bytes(bytes)
RECURSIVE BeValue(_, _)
BeValue(bytes, n) ==
    IF n = 0 THEN 0 ELSE BeValue(bytes, n - 1) * 256 + bytes[n]

from_be_bytes(bytes) == BeValue(bytes, Len(bytes))

\* the element of a one-element set: a value bound through a set is computed
\* once, where a LET or an argument is recomputed at every use
Only(S) == CHOOSE v \in S : TRUE

\* ------------------------------------------------------------- mod_exp
Max2(a, b) == IF a >= b THEN a ELSE b

\* state of mod_exp after lines 31-34; maxprod records the largest product
\* formed before reduction (a ghost of the u128 intermediate values)
ModExpEnter(base, exp, modulus) ==
    [base |-> base % modulus, exp |-> exp, modulus |-> modulus,
     result |-> 1, maxprod |-> 0]

\* the accumulator multiply of line 38, in u128
MulAcc_u64(result, base, modulus) == ((result * base) % U64) % modulus
MulAcc(result, base, modulus) == ((result * base) % U128) % modulus

\* one iteration of the while loop, lines 37-41
ModExpStep(st) ==
    LET odd == st.exp % 2 = 1
        sq == st.base * st.base
    IN [base |-> ((sq % U128) % st.modulus) % U64,
        exp |-> st.exp \div 2,
        modulus |-> st.modulus,
        result |-> IF odd THEN MulAcc(st.result, st.base, st.modulus)
                   ELSE st.result,
        maxprod |-> Max2(st.maxprod,
                         Max2(sq, IF odd THEN st.result * st.base ELSE 0))]

RECURSIVE ModExpLoop(_)
ModExpLoop(st) ==
    IF st.exp > 0
    THEN Only({ModExpLoop(next) : next \in {ModExpStep(st)}})
    ELSE st

mod_exp(base, exp, modulus) ==
    IF modulus = 1 THEN 0
    ELSE ModExpLoop(ModExpEnter(base, exp, modulus)).result % U64

\* -------------------------------------------------------- key exchange
PrivKeys == 0 .. MaxPriv

generate_keypair(private_key) ==
    [private |-> private_key, public |-> mod_exp(G, private_key, P)]

compute_shared_secret_swapped(their_public, our_private) ==
    mod_exp(our_private, their_public, P)
compute_shared_secret(their_public, our_private) ==
    mod_exp(their_public, our_private, P)

\* ------------------------------------------------------------ keystream
\* LcgKeystream { state: u32 }; position counts the next_byte calls (ghost)
LcgNew(seed) ==
    [state_hi |-> (seed \div Limb) % Limb, state_lo |-> seed % Limb,
     position |-> 0]

A_hi == LCG_A \div Limb
A_lo == LCG_A % Limb

\* LCG_A.wrapping_mul(state).wrapping_add(LCG_C), limb by limb
LcgAdvance(ks) ==
    LET low == A_lo * ks.state_lo + LCG_C
        hi == (((A_lo * ks.state_hi) % Limb) + ((A_hi * ks.state_lo) % Limb)
               + ((low \div Limb) % Limb)) % Limb
    IN [state_hi |-> hi, state_lo |-> low % Limb, position |-> ks.position + 1]

\* next_byte: the new generator and the byte (state >> 24) as u8
next_byte(ks) ==
    LET n == LcgAdvance(ks) IN [ks |-> n, byte |-> n.state_hi \div 256]

RECURSIVE get_bytes(_, _)
get_bytes(ks, count) ==
    IF count = 0 THEN [ks |-> ks, bytes |-> << >>]
    ELSE Only({ Only({ [ks |-> rest.ks, bytes |-> <<r.byte>> \o rest.bytes] :
                        rest \in {get_bytes(r.ks, count - 1)} }) :
                r \in {next_byte(ks)} })

\* --------------------------------------------------------------- cipher
encrypt_add(plaintext, keystream) ==
    LET r == get_bytes(keystream, Len(plaintext))
    IN [ks |-> r.ks,
        out |-> [i \in 1 .. Len(plaintext) |->
                    (plaintext[i] + r.bytes[i]) % 256]]
encrypt(plaintext, keystream) ==
    LET r == get_bytes(keystream, Len(plaintext))
    IN [ks |-> r.ks,
        out |-> [i \in 1 .. Len(plaintext) |-> Xor(plaintext[i], r.bytes[i])]]

\* a decrypt that takes one key byte more than the message has bytes
decrypt_ahead(ciphertext, keystream) ==
    LET d == encrypt(ciphertext, keystream)
    IN [ks |-> next_byte(d.ks).ks, out |-> d.out]
decrypt_stale(ciphertext, keystream) ==
    [ks |-> keystream, out |-> encrypt(ciphertext, keystream).out]
decrypt(ciphertext, keystream) == encrypt(ciphertext, keystream)

\* ----------------------------------------------------- framed transport
\* a length prefix written least significant byte first
send_message_le(stream, data) ==
    stream
    \o [i \in 1 .. LenPrefix |->
          to_be_bytes(Len(data), LenPrefix)[LenPrefix + 1 - i]]
    \o data

\* send_message: the bytes on the stream after a successful call
send_message(stream, data) ==
    stream \o to_be_bytes(Len(data), LenPrefix) \o data

\* whether both read_exact calls of receive_message can be satisfied
FrameReady(stream) ==
    /\ Len(stream) >= LenPrefix
    /\ Len(stream) >= LenPrefix + from_be_bytes(SubSeq(stream, 1, LenPrefix))

\* receive_message on a stream holding a whole frame: payload and the rest
receive_message(stream) ==
    LET len == from_be_bytes(SubSeq(stream, 1, LenPrefix))
    IN [data |-> SubSeq(stream, LenPrefix + 1, LenPrefix + len),
        rest |-> SubSeq(stream, LenPrefix + len + 1, Len(stream))]

\* ------------------------------------------------------- operator input
IsSpace(b) == b \in {9, 10, 11, 12, 13, 32}

RECURSIVE TrimStart(_)
TrimStart(s) ==
    IF s # << >> /\ IsSpace(s[1]) THEN TrimStart(Tail(s)) ELSE s

RECURSIVE TrimEnd(_)
TrimEnd(s) ==
    IF s # << >> /\ IsSpace(s[Len(s)])
    THEN TrimEnd(SubSeq(s, 1, Len(s) - 1)) ELSE s

\* input.trim()
trim(input) == TrimEnd(TrimStart(input))

Quit == <<113, 117, 105, 116>>
Exit == <<101, 120, 105, 116>>

\* message == "quit" || message == "exit"
IsQuit_only(message) == message = Quit
IsQuit(message) == message = Quit \/ message = Exit

\* what read_line can leave in `input`: nothing (end of file), "\n", "a\n",
\* " hi\n", "quit\n", "exit\r\n"
Lines ==
    { << >>, <<10>>, <<97, 10>>, <<32, 104, 105, 10>>,
      Quit \o <<10>>, Exit \o <<13, 10>> }

\* -------------------------------------------- keystream from a u64 seed
\* A u64 seed as four 16-bit limbs, most significant first.
\* LcgKeystream::new: state = (seed & 0xFFFFFFFF) as u32
LcgNewWide_folded(seed) ==
    [state_hi |-> (seed[3] + seed[1]) % Limb,
     state_lo |-> (seed[4] + seed[2]) % Limb, position |-> 0]
LcgNewWide(seed) ==
    [state_hi |-> seed[3], state_lo |-> seed[4], position |-> 0]

\* ------------------------------------------------- hexpath (rust_04): grid
\* Grid::new
Grid_new(cells) ==
    [cells |-> cells,
     height |-> Len(cells),
     width |-> IF Len(cells) > 0 THEN Len(cells[1]) ELSE 0]

\* Grid::get
get(grid, x, y) == grid.cells[y + 1][x + 1]

\* Grid::neighbors, in the order the code pushes them
neighbors(grid, x, y) ==
    (IF x > 0 THEN << <<x - 1, y>> >> ELSE << >>)
    \o (IF x < grid.width - 1 THEN << <<x + 1, y>> >> ELSE << >>)
    \o (IF y > 0 THEN << <<x, y - 1>> >> ELSE << >>)
    \o (IF y < grid.height - 1 THEN << <<x, y + 1>> >> ELSE << >>)

Cells(grid) == (0 .. grid.width - 1) \X (0 .. grid.height - 1)
Start == <<0, 0>>
End(grid) == <<grid.width - 1, grid.height - 1>>

\* u32::MAX, the initial dist of dijkstra_min, at the width of TLC's integers
u32_MAX == 2147483647

\* Option<(usize, usize)>::None for a parent
None == << >>

\* Option<PathResult>: None and Some(result)
NoPath == [some |-> FALSE, path |-> << >>, total_cost |-> 0]
Some(r) == [some |-> TRUE, path |-> r.path, total_cost |-> r.total_cost]

\* Ord on (u32, usize, usize): lexicographic
TupleLeq(a, b) ==
    \/ a[1] < b[1]
    \/ a[1] = b[1] /\ a[2] < b[2]
    \/ a[1] = b[1] /\ a[2] = b[2] /\ a[3] <= b[3]

\* BinaryHeap::pop on a heap of (cost, x, y): the greatest element
HeapMax(heap) == CHOOSE a \in heap : \A b \in heap : TupleLeq(b, a)

\* BinaryHeap::pop on a heap of Reverse((cost, x, y)): the least element
HeapMin_greatest(heap) == CHOOSE a \in heap : \A b \in heap : TupleLeq(b, a)
HeapMin(heap) == CHOOSE a \in heap : \A b \in heap : TupleLeq(a, b)

\* the while loop of reconstruct_path, reversed
RECURSIVE PathTo(_, _)
PathTo(parent, current) ==
    IF current = Start \/ parent[current] = None
    THEN <<current>>
    ELSE Append(PathTo(parent, parent[current]), current)

reconstruct_path(grid, parent, dist) ==
    [path |-> PathTo(parent, End(grid)), total_cost |-> dist[End(grid)]]

\* dijkstra_min, lines 140-145: the state before the loop.  The heap is a
\* set: no (cost, x, y) is ever pushed twice.
MinEnter(grid) ==
    [heap |-> {<<0, 0, 0>>},
     dist |-> [c \in Cells(grid) |-> IF c = Start THEN 0 ELSE u32_MAX],
     parent |-> [c \in Cells(grid) |-> None],
     visited |-> {},
     returned |-> FALSE, result |-> NoPath]

\* the for loop of dijkstra_min over the neighbours still to be looked at
RECURSIVE RelaxMin(_, _, _, _, _)
RelaxMin(grid, st, cost, from, nbrs) ==
    IF nbrs = << >> THEN st
    ELSE LET n == Head(nbrs)
             new_cost == cost + get(grid, n[1], n[2])
         IN RelaxMin(grid,
                     IF new_cost < st.dist[n]
                     THEN [st EXCEPT !.dist[n] = new_cost,
                                     !.parent[n] = from,
                                     !.heap = @ \cup {<<new_cost, n[1], n[2]>>}]
                     ELSE st,
                     cost, from, Tail(nbrs))

\* one turn of the while let of dijkstra_min (lines 147-164), or its end
\* with None (line 166)
MinStep(grid, st) ==
    IF st.heap = {} THEN [st EXCEPT !.returned = TRUE]
    ELSE LET top == HeapMin(st.heap)
             cost == top[1]
             x == top[2]
             y == top[3]
             popped == [st EXCEPT !.heap = @ \ {top}]
         IN IF <<x, y>> = End(grid)
            THEN [popped EXCEPT
                     !.returned = TRUE,
                     !.result = Some(reconstruct_path(grid, popped.parent,
                                                      popped.dist))]
            ELSE IF cost > popped.dist[<<x, y>>] THEN popped
            ELSE RelaxMin(grid, popped, cost, <<x, y>>, neighbors(grid, x, y))

\* dijkstra_max, lines 170-176
MaxEnter(grid) ==
    [heap |-> {<<0, 0, 0>>},
     dist |-> [c \in Cells(grid) |-> 0],
     parent |-> [c \in Cells(grid) |-> None],
     visited |-> {},
     returned |-> FALSE, result |-> NoPath]

\* the for loop of dijkstra_max
RECURSIVE RelaxMax(_, _, _, _, _)
RelaxMax(grid, st, cost, from, nbrs) ==
    IF nbrs = << >> THEN st
    ELSE LET n == Head(nbrs)
             new_cost == cost + get(grid, n[1], n[2])
         IN RelaxMax(grid,
                     IF n \notin st.visited /\ new_cost > st.dist[n]
                     THEN [st EXCEPT !.dist[n] = new_cost,
                                     !.parent[n] = from,
                                     !.heap = @ \cup {<<new_cost, n[1], n[2]>>}]
                     ELSE st,
                     cost, from, Tail(nbrs))

\* one turn of the while let of dijkstra_max (lines 178-198), or its end
\* with None (line 200)
MaxStep(grid, st) ==
    IF st.heap = {} THEN [st EXCEPT !.returned = TRUE]
    ELSE LET top == HeapMax(st.heap)
             cost == top[1]
             x == top[2]
             y == top[3]
             popped == [st EXCEPT !.heap = @ \ {top}]
             marked == [popped EXCEPT !.visited = @ \cup {<<x, y>>}]
         IN IF <<x, y>> \in popped.visited THEN popped
            ELSE IF <<x, y>> = End(grid)
            THEN [marked EXCEPT
                     !.returned = TRUE,
                     !.result = Some(reconstruct_path(grid, marked.parent,
                                                      marked.dist))]
            ELSE RelaxMax(grid, marked, cost, <<x, y>>, neighbors(grid, x, y))

RECURSIVE MinLoop(_, _)
MinLoop(grid, st) ==
    IF st.returned THEN st
    ELSE Only({MinLoop(grid, next) : next \in {MinStep(grid, st)}})

RECURSIVE MaxLoop(_, _)
MaxLoop(grid, st) ==
    IF st.returned THEN st
    ELSE Only({MaxLoop(grid, next) : next \in {MaxStep(grid, st)}})

dijkstra_min(grid) == MinLoop(grid, MinEnter(grid)).result
dijkstra_max(grid) == MaxLoop(grid, MaxEnter(grid)).result

DjIdle ==
    [pc |-> "idle", grid |-> Grid_new(<< <<0>> >>),
     search |-> MinEnter(Grid_new(<< <<0>> >>)),
     min |-> NoPath, max |-> NoPath]

\* ------------------------------------------------------------- the state
VARIABLES
    srv,        \* run_server's locals and position
    cli,        \* run_client's locals and position
    s2c,        \* bytes written by the server, not yet read by the client
    c2s,        \* bytes written by the client, not yet read by the server
    wire,       \* history (not in the code): which frame is where on the
                \* streams, and what the network did to frames
    listening,  \* the server's listener is bound
    conn,       \* "none", "pending" (connected, not accepted), "up"
    broken,     \* the connection was reset
    me,         \* an activation of mod_exp
    cz,         \* a cipher round trip
    fr,         \* a loopback connection carrying frames
    kz,         \* two keystream instances side by side
    dj          \* a run of dijkstra_min and dijkstra_max on one grid

vars == <<srv, cli, s2c, c2s, wire, listening, conn, broken, me, cz, fr, kz, dj>>
session == <<srv, cli, s2c, c2s, wire, listening, conn, broken>>

NoKeystream == LcgNew(0)

Party(start) ==
    [pc |-> start, result |-> "running",
     our_private |-> NoValue, our_public |-> NoValue,
     their_public |-> NoValue, shared_secret |-> NoValue,
     preview |-> << >>,
     send_keystream |-> NoKeystream, recv_keystream |-> NoKeystream,
     \* what the [ENCRYPT] and [DECRYPT] blocks printed, one entry a message
     trace |-> << >>,
     \* history (not in the code): what was sent, received and typed
     hs_sent |-> << >>, hs_recv |-> << >>,
     sent_plain |-> << >>, recv_plain |-> << >>,
     chat_sent |-> 0, nlines |-> 0,
     \* the operator's input has reached its end: every later read_line
     \* reads no bytes
     eof |-> FALSE]

\* no frame on either stream, nothing lost and nothing duplicated
NoTraffic == [s2c |-> << >>, c2s |-> << >>, faults |-> << >>]

\* the frame number a key frame carries in `wire`
KeyFrame == 0

MeIdle ==
    [pc |-> "idle", base |-> 0, exp |-> 0, modulus |-> 1,
     st |-> ModExpEnter(0, 0, 1), ret |-> NoValue]

CzIdle ==
    [pc |-> "idle", seed |-> 0, adv |-> 0, x |-> << >>,
     g1 |-> NoKeystream, g2 |-> NoKeystream, c |-> << >>, y |-> << >>]

FrIdle ==
    [pc |-> "idle", todo |-> << >>, stream |-> << >>,
     sent |-> << >>, got |-> << >>]

KzIdle ==
    [pc |-> "idle", seed1 |-> <<0, 0, 0, 0>>, seed2 |-> <<0, 0, 0, 0>>,
     g1 |-> NoKeystream, g2 |-> NoKeystream, out1 |-> << >>, out2 |-> << >>]

SessionInit ==
    /\ srv = Party("bind")
    /\ cli = Party("connect")
    /\ s2c = << >>
    /\ c2s = << >>
    /\ wire = NoTraffic
    /\ listening = FALSE
    /\ conn = "none"
    /\ broken = FALSE

Init ==
    /\ SessionInit
    /\ me = MeIdle
    /\ cz = CzIdle
    /\ fr = FrIdle
    /\ kz = KzIdle
    /\ dj = DjIdle

\* ------------------------------------------------------- socket outcomes
Closed(peer) == peer.pc = "done"

\* a receive_message that never sees the end of the stream
CanReceive_open(stream, peer) == broken \/ FrameReady(stream)

\* a blocking receive_message returns: a frame is there, or it must fail
CanReceive(stream, peer) == broken \/ FrameReady(stream) \/ Closed(peer)

\* receive_message returns Err: reset, or end of stream before a whole frame
ReceiveFails(stream) == broken \/ ~FrameReady(stream)

\* send_message returns Err: always after a reset, possibly once the peer
\* has closed its socket, never otherwise
SendFailureModes(peer) ==
    IF broken THEN {TRUE} ELSE IF Closed(peer) THEN {TRUE, FALSE} ELSE {FALSE}

\* an error that is swallowed: the loop goes on to its next prompt
Failed_continue(p) == [p EXCEPT !.pc = "read"]

\* the `?` of run_server / run_client followed by main's exit(1)
Failed(p) == [p EXCEPT !.pc = "done", !.result = "err"]

\* keystream, preview, send_keystream, recv_keystream of lines 168-172
SetupKeystreams_own(p, shared_secret) ==
    LET keystream == LcgNew(shared_secret)
        preview == get_bytes(keystream, PreviewLen)
    IN [p EXCEPT !.shared_secret = shared_secret,
                 !.preview = preview.bytes,
                 !.send_keystream = LcgNew(p.our_public),
                 !.recv_keystream = LcgNew(p.their_public)]
SetupKeystreams_shared(p, shared_secret) ==
    LET keystream == LcgNew(shared_secret)
        preview == get_bytes(keystream, PreviewLen)
    IN [p EXCEPT !.shared_secret = shared_secret,
                 !.preview = preview.bytes,
                 !.send_keystream = preview.ks,
                 !.recv_keystream = LcgNew(shared_secret)]
SetupKeystreams(p, shared_secret) ==
    LET keystream == LcgNew(shared_secret)
        preview == get_bytes(keystream, PreviewLen)
    IN [p EXCEPT !.shared_secret = shared_secret,
                 !.preview = preview.bytes,
                 !.send_keystream = LcgNew(shared_secret),
                 !.recv_keystream = LcgNew(shared_secret)]

\* the operator's lines are counted up to MaxLines; once the peer has closed
\* its socket a further line leaves the counter where it is
HasInput(p, peer) == p.nlines < MaxLines \/ Closed(peer)
Typed(p) == [p EXCEPT !.nlines = IF @ < MaxLines THEN @ + 1 ELSE @]

\* read_line: Ok(0) with `input` left empty at the end of the input, and
\* from then on; a line otherwise
CanRead(p, peer, input) ==
    IF input = << >> THEN TRUE ELSE ~p.eof /\ HasInput(p, peer)
ReadLine(p, input) ==
    IF input = << >> THEN [p EXCEPT !.eof = TRUE] ELSE Typed(p)

\* temp_ks: a fresh generator, `skip` bytes discarded, `count` bytes kept
temp_ks(shared_secret, skip, count) ==
    get_bytes(get_bytes(LcgNew(shared_secret), skip).ks, count).bytes

\* one [ENCRYPT] or [DECRYPT] block: the key bytes and the keystream
\* position it prints (shown_key, shown_position), with the frame number,
\* position and key bytes of the instance that did the work (not printed)
TraceEntry(op, id, keystream, len, shown_key, shown_position) ==
    [op |-> op, id |-> id,
     position |-> keystream.position,
     key |-> get_bytes(keystream, len).bytes,
     shown_key |-> shown_key, shown_position |-> shown_position]

\* the value a variable of the loop body holds: the last one bound to it
Last(s) == IF s = << >> THEN << >> ELSE s[Len(s)]

\* ---------------------------------------------------------- run_server
\* TcpListener::bind
ServerBind ==
    /\ srv.pc = "bind"
    /\ srv' = [srv EXCEPT !.pc = "accept"]
    /\ listening' = TRUE
    /\ UNCHANGED <<cli, s2c, c2s, wire, conn, broken, me, cz, fr, kz, dj>>

\* a server that forgets to send its key before it waits for the peer's
ServerAccept_recv_first ==
    /\ srv.pc = "accept"
    /\ conn = "pending"
    /\ conn' = "up"
    /\ \E private_key \in PrivKeys :
          LET kp == generate_keypair(private_key)
          IN srv' = [srv EXCEPT !.pc = "hs_recv",
                                !.our_private = kp.private,
                                !.our_public = kp.public]
    /\ UNCHANGED <<cli, s2c, c2s, wire, listening, broken, me, cz, fr, kz, dj>>

\* listener.accept, then generate_keypair
ServerAccept ==
    /\ srv.pc = "accept"
    /\ conn = "pending"
    /\ conn' = "up"
    /\ \E private_key \in PrivKeys :
          LET kp == generate_keypair(private_key)
          IN srv' = [srv EXCEPT !.pc = "hs_send",
                                !.our_private = kp.private,
                                !.our_public = kp.public]
    /\ UNCHANGED <<cli, s2c, c2s, wire, listening, broken, me, cz, fr, kz, dj>>

\* send_message(&mut stream, &our_public.to_be_bytes())?
ServerSendKey ==
    /\ srv.pc = "hs_send"
    /\ \E fails \in SendFailureModes(cli) :
          IF fails
          THEN srv' = Failed(srv) /\ s2c' = s2c /\ wire' = wire
          ELSE LET key == to_be_bytes(srv.our_public, KeyLen)
               IN /\ s2c' = send_message(s2c, key)
                  /\ wire' = [wire EXCEPT !.s2c = Append(@, KeyFrame)]
                  /\ srv' = [srv EXCEPT !.pc = "hs_recv",
                                        !.hs_sent = Append(@, key)]
    /\ UNCHANGED <<cli, c2s, listening, conn, broken, me, cz, fr, kz, dj>>

\* a server that takes whatever payload arrives for the peer's public key
ServerRecvKey_lenient ==
    /\ srv.pc = "hs_recv"
    /\ CanReceive(c2s, cli)
    /\ IF ReceiveFails(c2s)
       THEN srv' = Failed(srv) /\ c2s' = c2s /\ wire' = wire
       ELSE LET r == receive_message(c2s)
                their_public == from_be_bytes(r.data) % U64
                shared_secret ==
                    compute_shared_secret(their_public, srv.our_private)
            IN /\ c2s' = r.rest
               /\ wire' = [wire EXCEPT !.c2s = Tail(@)]
               /\ srv' = [SetupKeystreams(srv, shared_secret)
                          EXCEPT !.pc = "read",
                                 !.their_public = their_public,
                                 !.hs_recv = Append(@, r.data)]
    /\ UNCHANGED <<cli, s2c, listening, conn, broken, me, cz, fr, kz, dj>>

\* receive_message, from_be_bytes(..try_into().unwrap()),
\* compute_shared_secret and the keystreams
ServerRecvKey ==
    /\ srv.pc = "hs_recv"
    /\ CanReceive(c2s, cli)
    /\ IF ReceiveFails(c2s)
       THEN srv' = Failed(srv) /\ c2s' = c2s /\ wire' = wire
       ELSE LET r == receive_message(c2s)
            IN /\ c2s' = r.rest
               /\ wire' = [wire EXCEPT !.c2s = Tail(@)]
               /\ IF Len(r.data) # KeyLen
                  THEN srv' = [srv EXCEPT !.pc = "done", !.result = "panic",
                                          !.hs_recv = Append(@, r.data)]
                  ELSE LET their_public == from_be_bytes(r.data)
                           shared_secret ==
                               compute_shared_secret(their_public,
                                                     srv.our_private)
                       IN srv' = [SetupKeystreams(srv, shared_secret)
                                  EXCEPT !.pc = "read",
                                         !.their_public = their_public,
                                         !.hs_recv = Append(@, r.data)]
    /\ UNCHANGED <<cli, s2c, listening, conn, broken, me, cz, fr, kz, dj>>

\* the first half of the server's loop: read_line, trim, the empty and
\* quit checks, encrypt, the [ENCRYPT] trace, send_message
ServerLine(input) ==
    /\ srv.pc = "read"
    /\ CanRead(srv, cli, input)
    /\ LET message == trim(input)
           typed == ReadLine(srv, input)
       IN IF message = << >>
          THEN srv' = typed /\ s2c' = s2c /\ wire' = wire
          ELSE IF IsQuit(message)
          THEN /\ srv' = [typed EXCEPT !.pc = "done", !.result = "ok"]
               /\ s2c' = s2c
               /\ wire' = wire
          ELSE LET e == encrypt(message, srv.send_keystream)
                   id == Len(srv.sent_plain) + 1
                   key_preview ==
                       temp_ks(srv.shared_secret, 0, Len(message))
                   sent == [typed EXCEPT
                               !.send_keystream = e.ks,
                               !.sent_plain = Append(@, message),
                               !.trace = Append(@,
                                   TraceEntry("encrypt", id,
                                              srv.send_keystream,
                                              Len(message), key_preview, 0))]
               IN \E fails \in SendFailureModes(cli) :
                     IF fails
                     THEN srv' = Failed(sent) /\ s2c' = s2c /\ wire' = wire
                     ELSE /\ s2c' = send_message(s2c, e.out)
                          /\ wire' = [wire EXCEPT !.s2c = Append(@, id)]
                          /\ srv' = [sent EXCEPT !.pc = "recv",
                                                 !.chat_sent = @ + 1]
    /\ UNCHANGED <<cli, c2s, listening, conn, broken, me, cz, fr, kz, dj>>

\* the second half of the server's loop: receive_message, decrypt, the
\* [DECRYPT] trace; `plaintext` is the message sent in this iteration
ServerRecv ==
    /\ srv.pc = "recv"
    /\ CanReceive(c2s, cli)
    /\ IF ReceiveFails(c2s)
       THEN srv' = Failed(srv) /\ c2s' = c2s /\ wire' = wire
       ELSE LET r == receive_message(c2s)
                received_cipher == r.data
                d == decrypt(received_cipher, srv.recv_keystream)
                plaintext == Last(srv.sent_plain)
                key_used == temp_ks(srv.shared_secret, Len(plaintext),
                                    Len(received_cipher))
            IN /\ c2s' = r.rest
               /\ wire' = [wire EXCEPT !.c2s = Tail(@)]
               /\ srv' = [srv EXCEPT
                             !.pc = "read",
                             !.recv_keystream = d.ks,
                             !.recv_plain = Append(@, d.out),
                             !.trace = Append(@,
                                 TraceEntry("decrypt", Head(wire.c2s),
                                            srv.recv_keystream,
                                            Len(received_cipher), key_used,
                                            Len(plaintext)))]
    /\ UNCHANGED <<cli, s2c, listening, conn, broken, me, cz, fr, kz, dj>>

\* ---------------------------------------------------------- run_client
\* TcpStream::connect, then generate_keypair
ClientConnect ==
    /\ cli.pc = "connect"
    /\ IF listening
       THEN /\ conn' = "pending"
            /\ \E private_key \in PrivKeys :
                  LET kp == generate_keypair(private_key)
                  IN cli' = [cli EXCEPT !.pc = "hs_recv",
                                        !.our_private = kp.private,
                                        !.our_public = kp.public]
       ELSE cli' = Failed(cli) /\ conn' = conn
    /\ UNCHANGED <<srv, s2c, c2s, wire, listening, broken, me, cz, fr, kz, dj>>

\* receive_message, from_be_bytes(..try_into().unwrap())
ClientRecvKey ==
    /\ cli.pc = "hs_recv"
    /\ CanReceive(s2c, srv)
    /\ IF ReceiveFails(s2c)
       THEN cli' = Failed(cli) /\ s2c' = s2c /\ wire' = wire
       ELSE LET r == receive_message(s2c)
            IN /\ s2c' = r.rest
               /\ wire' = [wire EXCEPT !.s2c = Tail(@)]
               /\ IF Len(r.data) # KeyLen
                  THEN cli' = [cli EXCEPT !.pc = "done", !.result = "panic",
                                          !.hs_recv = Append(@, r.data)]
                  ELSE cli' = [cli EXCEPT !.pc = "hs_send",
                                          !.their_public = from_be_bytes(r.data),
                                          !.hs_recv = Append(@, r.data)]
    /\ UNCHANGED <<srv, c2s, listening, conn, broken, me, cz, fr, kz, dj>>

\* a client whose loop starts with the prompt, as the server's does
ClientSendKey_prompt_first ==
    /\ cli.pc = "hs_send"
    /\ \E fails \in SendFailureModes(srv) :
          IF fails
          THEN cli' = Failed(cli) /\ c2s' = c2s /\ wire' = wire
          ELSE LET key == to_be_bytes(cli.our_public, KeyLen)
                   shared_secret ==
                       compute_shared_secret(cli.their_public, cli.our_private)
               IN /\ c2s' = send_message(c2s, key)
                  /\ wire' = [wire EXCEPT !.c2s = Append(@, KeyFrame)]
                  /\ cli' = [SetupKeystreams(cli, shared_secret)
                             EXCEPT !.pc = "read",
                                    !.hs_sent = Append(@, key)]
    /\ UNCHANGED <<srv, s2c, listening, conn, broken, me, cz, fr, kz, dj>>

\* send_message(&mut stream, &our_public.to_be_bytes())?, then
\* compute_shared_secret and the keystreams
ClientSendKey ==
    /\ cli.pc = "hs_send"
    /\ \E fails \in SendFailureModes(srv) :
          IF fails
          THEN cli' = Failed(cli) /\ c2s' = c2s /\ wire' = wire
          ELSE LET key == to_be_bytes(cli.our_public, KeyLen)
                   shared_secret ==
                       compute_shared_secret(cli.their_public, cli.our_private)
               IN /\ c2s' = send_message(c2s, key)
                  /\ wire' = [wire EXCEPT !.c2s = Append(@, KeyFrame)]
                  /\ cli' = [SetupKeystreams(cli, shared_secret)
                             EXCEPT !.pc = "recv",
                                    !.hs_sent = Append(@, key)]
    /\ UNCHANGED <<srv, s2c, listening, conn, broken, me, cz, fr, kz, dj>>

\* the first half of the client's loop: receive_message, decrypt, the
\* [DECRYPT] trace
ClientRecv ==
    /\ cli.pc = "recv"
    /\ CanReceive(s2c, srv)
    /\ IF ReceiveFails(s2c)
       THEN cli' = Failed(cli) /\ s2c' = s2c /\ wire' = wire
       ELSE LET r == receive_message(s2c)
                received_cipher == r.data
                d == decrypt(received_cipher, cli.recv_keystream)
                key_used ==
                    temp_ks(cli.shared_secret, 0, Len(received_cipher))
            IN /\ s2c' = r.rest
               /\ wire' = [wire EXCEPT !.s2c = Tail(@)]
               /\ cli' = [cli EXCEPT
                             !.pc = "read",
                             !.recv_keystream = d.ks,
                             !.recv_plain = Append(@, d.out),
                             !.trace = Append(@,
                                 TraceEntry("decrypt", Head(wire.s2c),
                                            cli.recv_keystream,
                                            Len(received_cipher), key_used,
                                            0))]
    /\ UNCHANGED <<srv, c2s, listening, conn, broken, me, cz, fr, kz, dj>>

\* a client that stays at its prompt after it has sent a message
ClientLine_stay(input) ==
    /\ cli.pc = "read"
    /\ CanRead(cli, srv, input)
    /\ LET message == trim(input)
           typed == ReadLine(cli, input)
       IN IF message = << >>
          THEN cli' = [typed EXCEPT !.pc = "recv"] /\ c2s' = c2s /\ wire' = wire
          ELSE IF IsQuit(message)
          THEN /\ cli' = [typed EXCEPT !.pc = "done", !.result = "ok"]
               /\ c2s' = c2s
               /\ wire' = wire
          ELSE LET e == encrypt(message, cli.send_keystream)
                   id == Len(cli.sent_plain) + 1
                   sent == [typed EXCEPT
                               !.send_keystream = e.ks,
                               !.sent_plain = Append(@, message)]
               IN \E fails \in SendFailureModes(srv) :
                     IF fails
                     THEN cli' = Failed(sent) /\ c2s' = c2s /\ wire' = wire
                     ELSE /\ c2s' = send_message(c2s, e.out)
                          /\ wire' = [wire EXCEPT !.c2s = Append(@, id)]
                          /\ cli' = [sent EXCEPT !.chat_sent = @ + 1]
    /\ UNCHANGED <<srv, s2c, listening, conn, broken, me, cz, fr, kz, dj>>

\* the second half of the client's loop: read_line, trim, the empty and
\* quit checks, encrypt, the [ENCRYPT] trace, send_message; `continue` and
\* the end of the body both lead back to receive_message; `received_cipher`
\* is the frame received in this iteration
ClientLine(input) ==
    /\ cli.pc = "read"
    /\ CanRead(cli, srv, input)
    /\ LET message == trim(input)
           typed == ReadLine(cli, input)
       IN IF message = << >>
          THEN cli' = [typed EXCEPT !.pc = "recv"] /\ c2s' = c2s /\ wire' = wire
          ELSE IF IsQuit(message)
          THEN /\ cli' = [typed EXCEPT !.pc = "done", !.result = "ok"]
               /\ c2s' = c2s
               /\ wire' = wire
          ELSE LET e == encrypt(message, cli.send_keystream)
                   id == Len(cli.sent_plain) + 1
                   received_cipher == Last(cli.recv_plain)
                   key_preview ==
                       temp_ks(cli.shared_secret, Len(received_cipher),
                               Len(message))
                   sent == [typed EXCEPT
                               !.send_keystream = e.ks,
                               !.sent_plain = Append(@, message),
                               !.trace = Append(@,
                                   TraceEntry("encrypt", id,
                                              cli.send_keystream,
                                              Len(message), key_preview,
                                              Len(received_cipher)))]
               IN \E fails \in SendFailureModes(srv) :
                     IF fails
                     THEN cli' = Failed(sent) /\ c2s' = c2s /\ wire' = wire
                     ELSE /\ c2s' = send_message(c2s, e.out)
                          /\ wire' = [wire EXCEPT !.c2s = Append(@, id)]
                          /\ cli' = [sent EXCEPT !.pc = "recv",
                                                 !.chat_sent = @ + 1]
    /\ UNCHANGED <<srv, s2c, listening, conn, broken, me, cz, fr, kz, dj>>

\* ------------------------------------------------------------ the network
\* the connection is reset: every later send and receive on it fails
ConnectionReset ==
    /\ conn # "none"
    /\ ~broken
    /\ ~(Closed(srv) /\ Closed(cli))
    /\ broken' = TRUE
    /\ UNCHANGED <<srv, cli, s2c, c2s, wire, listening, conn, me, cz, fr, kz, dj>>

Next ==
    \/ ServerBind
    \/ ServerAccept
    \/ ServerSendKey
    \/ ServerRecvKey
    \/ \E input \in Lines : ServerLine(input)
    \/ ServerRecv
    \/ ClientConnect
    \/ ClientRecvKey
    \/ ClientSendKey
    \/ ClientRecv
    \/ \E input \in Lines : ClientLine(input)
    \/ ConnectionReset

Spec == Init /\ [][Next]_vars

\* ------------------------------------------- mod_exp, one step at a time
\* every call mod_exp(base, exp, modulus) with modulus >= 1
InitModExp ==
    /\ SessionInit
    /\ cz = CzIdle
    /\ fr = FrIdle
    /\ kz = KzIdle
    /\ dj = DjIdle
    /\ \E base \in 0 .. U64 - 1, exp \in 0 .. U64 - 1, modulus \in 1 .. U64 - 1 :
          me = [MeIdle EXCEPT !.pc = "call", !.base = base, !.exp = exp,
                              !.modulus = modulus]

\* lines 27-34: the modulus == 1 return, result = 1, base %= modulus
MeEnter ==
    /\ me.pc = "call"
    /\ me' = IF me.modulus = 1
             THEN [me EXCEPT !.pc = "done", !.ret = 0]
             ELSE [me EXCEPT !.pc = "loop",
                             !.st = ModExpEnter(me.base, me.exp, me.modulus)]
    /\ UNCHANGED <<session, cz, fr, kz, dj>>

\* lines 36-42: one iteration of while exp > 0
MeIterate ==
    /\ me.pc = "loop"
    /\ me.st.exp > 0
    /\ me' = [me EXCEPT !.st = ModExpStep(me.st)]
    /\ UNCHANGED <<session, cz, fr, kz, dj>>

\* line 44: result as u64
MeReturn ==
    /\ me.pc = "loop"
    /\ me.st.exp = 0
    /\ me' = [me EXCEPT !.pc = "done", !.ret = me.st.result % U64]
    /\ UNCHANGED <<session, cz, fr, kz, dj>>

NextModExp == MeEnter \/ MeIterate \/ MeReturn

SpecModExp == InitModExp /\ [][NextModExp]_vars

\* -------------------------------------------------- a cipher round trip
SampleBytes == {0, 104, 255}
Seeds == {0, 1, P - 1, Limb - 1, Limb, 2147483647}

RECURSIVE SeqsUpTo(_, _)
SeqsUpTo(S, n) ==
    IF n = 0 THEN {<< >>}
    ELSE LET shorter == SeqsUpTo(S, n - 1)
         IN shorter \cup {Append(q, b) : q \in shorter, b \in S}

\* a plaintext x, a seed s and the number of bytes both generators emitted
InitCipher ==
    /\ SessionInit
    /\ me = MeIdle
    /\ fr = FrIdle
    /\ kz = KzIdle
    /\ dj = DjIdle
    /\ \E seed \in Seeds, adv \in 0 .. MaxAdvance, x \in SeqsUpTo(SampleBytes, MaxLen) :
          cz = [CzIdle EXCEPT !.pc = "new", !.seed = seed, !.adv = adv, !.x = x]

\* G1 and G2: LcgKeystream::new(seed), each advanced by adv bytes
CzCreate ==
    /\ cz.pc = "new"
    /\ cz' = [cz EXCEPT !.pc = "ready",
                        !.g1 = get_bytes(LcgNew(cz.seed), cz.adv).ks,
                        !.g2 = get_bytes(LcgNew(cz.seed), cz.adv).ks]
    /\ UNCHANGED <<session, me, fr, kz, dj>>

\* c = encrypt(x, &mut G1)
CzEncrypt ==
    /\ cz.pc = "ready"
    /\ LET e == encrypt(cz.x, cz.g1)
       IN cz' = [cz EXCEPT !.pc = "encrypted", !.c = e.out, !.g1 = e.ks]
    /\ UNCHANGED <<session, me, fr, kz, dj>>

\* y = decrypt(c, &mut G2)
CzDecrypt ==
    /\ cz.pc = "encrypted"
    /\ LET d == decrypt(cz.c, cz.g2)
       IN cz' = [cz EXCEPT !.pc = "decrypted", !.y = d.out, !.g2 = d.ks]
    /\ UNCHANGED <<session, me, fr, kz, dj>>

NextCipher == CzCreate \/ CzEncrypt \/ CzDecrypt

SpecCipher == InitCipher /\ [][NextCipher]_vars

\* --------------------------------------------------- scheduling (fairness)
\* A process that is not blocked in a system call runs: the steps a party
\* takes without its operator are weakly fair.  Typing a line and a reset of
\* the connection are the environment's and carry no fairness.
ServerRuns ==
    ServerBind \/ ServerAccept \/ ServerSendKey \/ ServerRecvKey \/ ServerRecv
ClientRuns ==
    ClientConnect \/ ClientRecvKey \/ ClientSendKey \/ ClientRecv

FairSpec == Spec /\ WF_vars(ServerRuns) /\ WF_vars(ClientRuns)

\* ------------------------------------------- frames over a loopback stream
FrameBytes == {0, 255}

\* the payloads a writer hands to send_message, in order
InitFrame ==
    /\ SessionInit
    /\ me = MeIdle
    /\ cz = CzIdle
    /\ kz = KzIdle
    /\ dj = DjIdle
    /\ \E todo \in SeqsUpTo(SeqsUpTo(FrameBytes, MaxLen), MaxFrames) :
          fr = [FrIdle EXCEPT !.pc = "open", !.todo = todo]

\* send_message(&mut stream, payload) on the writing end
FrSend ==
    /\ fr.pc = "open"
    /\ fr.todo # << >>
    /\ fr' = [fr EXCEPT !.stream = send_message(@, Head(fr.todo)),
                        !.sent = Append(@, Head(fr.todo)),
                        !.todo = Tail(@)]
    /\ UNCHANGED <<session, me, cz, kz, dj>>

\* receive_message(&mut stream) on the reading end, once a frame is there
FrReceive ==
    /\ fr.pc = "open"
    /\ FrameReady(fr.stream)
    /\ LET r == receive_message(fr.stream)
       IN fr' = [fr EXCEPT !.stream = r.rest, !.got = Append(@, r.data)]
    /\ UNCHANGED <<session, me, cz, kz, dj>>

NextFrame == FrSend \/ FrReceive

SpecFrame == InitFrame /\ [][NextFrame]_vars

\* --------------------------------------- two keystreams from two u64 seeds
LowWords == { <<0, 0>>, <<0, 1>>, <<32768, 0>>, <<65535, 65535>> }
HighWords == { <<0, 0>>, <<0, 1>>, <<65535, 65535>> }
WideSeeds == { high \o low : high \in HighWords, low \in LowWords }

InitKeystream ==
    /\ SessionInit
    /\ me = MeIdle
    /\ cz = CzIdle
    /\ fr = FrIdle
    /\ dj = DjIdle
    /\ \E seed1 \in WideSeeds, seed2 \in WideSeeds :
          kz = [KzIdle EXCEPT !.pc = "new", !.seed1 = seed1, !.seed2 = seed2]

\* LcgKeystream::new(seed1), LcgKeystream::new(seed2)
KzCreate ==
    /\ kz.pc = "new"
    /\ kz' = [kz EXCEPT !.pc = "run",
                        !.g1 = LcgNewWide(kz.seed1),
                        !.g2 = LcgNewWide(kz.seed2)]
    /\ UNCHANGED <<session, me, cz, fr, dj>>

\* next_byte on the first instance
KzNext1 ==
    /\ kz.pc = "run"
    /\ Len(kz.out1) < MaxCalls
    /\ LET r == next_byte(kz.g1)
       IN kz' = [kz EXCEPT !.g1 = r.ks, !.out1 = Append(@, r.byte)]
    /\ UNCHANGED <<session, me, cz, fr, dj>>

\* next_byte on the second instance
KzNext2 ==
    /\ kz.pc = "run"
    /\ Len(kz.out2) < MaxCalls
    /\ LET r == next_byte(kz.g2)
       IN kz' = [kz EXCEPT !.g2 = r.ks, !.out2 = Append(@, r.byte)]
    /\ UNCHANGED <<session, me, cz, fr, dj>>

NextKeystream == KzCreate \/ KzNext1 \/ KzNext2

SpecKeystream == InitKeystream /\ [][NextKeystream]_vars

\* ------------------------------------------- hexpath: both searches, a grid
CellValues == {0, 1, 255}

\* the shapes of at most MaxCells cells and the grids parse_map can return
Shapes ==
    { s \in (1 .. MaxCells) \X (1 .. MaxCells) : s[1] * s[2] <= MaxCells }
Grids ==
    UNION { { Grid_new(cells) : cells \in [1 .. s[2] -> [1 .. s[1] -> CellValues]] } :
            s \in Shapes }

InitGrid ==
    /\ SessionInit
    /\ me = MeIdle
    /\ cz = CzIdle
    /\ fr = FrIdle
    /\ kz = KzIdle
    /\ \E grid \in Grids :
          dj = [DjIdle EXCEPT !.pc = "min", !.grid = grid,
                              !.search = MinEnter(grid)]

\* one turn of dijkstra_min's loop
DjMinIterate ==
    /\ dj.pc = "min"
    /\ ~dj.search.returned
    /\ dj' = [dj EXCEPT !.search = MinStep(dj.grid, dj.search)]
    /\ UNCHANGED <<session, me, cz, fr, kz>>

\* main, lines 520-521: min_result is bound and dijkstra_max is entered
DjMinReturn ==
    /\ dj.pc = "min"
    /\ dj.search.returned
    /\ dj' = [dj EXCEPT !.pc = "max", !.min = dj.search.result,
                        !.search = MaxEnter(dj.grid)]
    /\ UNCHANGED <<session, me, cz, fr, kz>>

\* one turn of dijkstra_max's loop
DjMaxIterate ==
    /\ dj.pc = "max"
    /\ ~dj.search.returned
    /\ dj' = [dj EXCEPT !.search = MaxStep(dj.grid, dj.search)]
    /\ UNCHANGED <<session, me, cz, fr, kz>>

\* max_result is bound
DjMaxReturn ==
    /\ dj.pc = "max"
    /\ dj.search.returned
    /\ dj' = [dj EXCEPT !.pc = "done", !.max = dj.search.result]
    /\ UNCHANGED <<session, me, cz, fr, kz>>

NextGrid == DjMinIterate \/ DjMinReturn \/ DjMaxIterate \/ DjMaxReturn

SpecGrid == InitGrid /\ [][NextGrid]_vars

\* ------------------------------------------------ a peer that is not ours
\* Anything that speaks TCP can sit at the other end.  What such a peer may
\* send where the public key is expected: nothing, 7, 8 or 9 bytes.
ForeignKeys ==
    { << >>, to_be_bytes(5, KeyLen - 1), to_be_bytes(5, KeyLen),
      to_be_bytes(5, KeyLen + 1) }

\* another program connects to the server and writes one frame
ForeignClient(payload) ==
    /\ cli.pc = "connect"
    /\ listening
    /\ conn' = "pending"
    /\ cli' = [cli EXCEPT !.pc = "foreign"]
    /\ c2s' = send_message(c2s, payload)
    /\ wire' = [wire EXCEPT !.c2s = Append(@, KeyFrame)]
    /\ UNCHANGED <<srv, s2c, listening, broken, me, cz, fr, kz, dj>>

\* another program accepts the client's connection and writes one frame
ForeignServer(payload) ==
    /\ srv.pc = "accept"
    /\ conn = "pending"
    /\ conn' = "up"
    /\ srv' = [srv EXCEPT !.pc = "foreign"]
    /\ s2c' = send_message(s2c, payload)
    /\ wire' = [wire EXCEPT !.s2c = Append(@, KeyFrame)]
    /\ UNCHANGED <<cli, c2s, listening, broken, me, cz, fr, kz, dj>>

\* the other program closes its socket
ForeignClose ==
    /\ srv.pc = "foreign" \/ cli.pc = "foreign"
    /\ IF srv.pc = "foreign"
       THEN srv' = [srv EXCEPT !.pc = "done", !.result = "closed"] /\ cli' = cli
       ELSE cli' = [cli EXCEPT !.pc = "done", !.result = "closed"] /\ srv' = srv
    /\ UNCHANGED <<s2c, c2s, wire, listening, conn, broken, me, cz, fr, kz, dj>>

NextForeign ==
    \/ Next
    \/ \E payload \in ForeignKeys : ForeignClient(payload)
    \/ \E payload \in ForeignKeys : ForeignServer(payload)
    \/ ForeignClose

SpecForeign == Init /\ [][NextForeign]_vars

\* ---------------------------------------- a network that loses and repeats
Directions == {"s2c", "c2s"}
Stream(dir) == IF dir = "s2c" THEN s2c ELSE c2s

\* the network has already lost or repeated this frame
Faulted(dir, id) ==
    \E n \in 1 .. Len(wire.faults) :
       wire.faults[n].dir = dir /\ wire.faults[n].id = id

\* the chat frame at the head of a stream never reaches receive_message
LoseFrame(dir) ==
    /\ Len(wire.faults) < MaxFaults
    /\ FrameReady(Stream(dir))
    /\ Head(wire[dir]) # KeyFrame
    /\ ~Faulted(dir, Head(wire[dir]))
    /\ LET r == receive_message(Stream(dir))
       IN /\ s2c' = IF dir = "s2c" THEN r.rest ELSE s2c
          /\ c2s' = IF dir = "c2s" THEN r.rest ELSE c2s
          /\ wire' = [wire EXCEPT
                         ![dir] = Tail(@),
                         !.faults = Append(@, [dir |-> dir, kind |-> "lost",
                                               id |-> Head(wire[dir]),
                                               len |-> Len(r.data)])]
    /\ UNCHANGED <<srv, cli, listening, conn, broken, me, cz, fr, kz, dj>>

\* the chat frame at the head of a stream will reach receive_message twice
DuplicateFrame(dir) ==
    /\ Len(wire.faults) < MaxFaults
    /\ FrameReady(Stream(dir))
    /\ Head(wire[dir]) # KeyFrame
    /\ ~Faulted(dir, Head(wire[dir]))
    /\ LET r == receive_message(Stream(dir))
           frame == SubSeq(Stream(dir), 1, LenPrefix + Len(r.data))
       IN /\ s2c' = IF dir = "s2c" THEN frame \o s2c ELSE s2c
          /\ c2s' = IF dir = "c2s" THEN frame \o c2s ELSE c2s
          /\ wire' = [wire EXCEPT
                         ![dir] = <<Head(wire[dir])>> \o @,
                         !.faults = Append(@, [dir |-> dir, kind |-> "twice",
                                               id |-> Head(wire[dir]),
                                               len |-> Len(r.data)])]
    /\ UNCHANGED <<srv, cli, listening, conn, broken, me, cz, fr, kz, dj>>

\* one pair of private keys stands for all: srv 2, cli 1
OneKeyPair ==
    /\ srv.our_private \in {NoValue, 2}
    /\ cli.our_private \in {NoValue, 1}

\* the session on a network that loses and repeats chat frames and is
\* never reset, with operators whose input does not end
NextLossy ==
    \/ ServerBind
    \/ ServerAccept /\ OneKeyPair'
    \/ ServerSendKey
    \/ ServerRecvKey
    \/ \E input \in Lines \ {<< >>} : ServerLine(input)
    \/ ServerRecv
    \/ ClientConnect /\ OneKeyPair'
    \/ ClientRecvKey
    \/ ClientSendKey
    \/ ClientRecv
    \/ \E input \in Lines \ {<< >>} : ClientLine(input)
    \/ \E dir \in Directions : LoseFrame(dir)
    \/ \E dir \in Directions : DuplicateFrame(dir)

SpecLossy == Init /\ [][NextLossy]_vars

\* ------------------------------------------------- an operator who answers
\* An operator who is prompted sooner or later enters a line that is not
\* empty; the parties run as in FairSpec.
ServerTypes == \E input \in Lines : trim(input) # << >> /\ ServerLine(input)
ClientTypes == \E input \in Lines : trim(input) # << >> /\ ClientLine(input)

NextAttended ==
    \/ ServerBind
    \/ ServerAccept /\ OneKeyPair'
    \/ ServerSendKey
    \/ ServerRecvKey
    \/ \E input \in Lines : ServerLine(input)
    \/ ServerRecv
    \/ ClientConnect /\ OneKeyPair'
    \/ ClientRecvKey
    \/ ClientSendKey
    \/ ClientRecv
    \/ \E input \in Lines : ClientLine(input)
    \/ ConnectionReset

AttendedSpec ==
    /\ Init
    /\ [][NextAttended]_vars
    /\ WF_vars(ServerRuns)
    /\ WF_vars(ClientRuns)
    /\ WF_vars(ServerTypes)
    /\ WF_vars(ClientTypes)

\* ==================================================================== C1
IsPrefix(a, b) == Len(a) <= Len(b) /\ a = SubSeq(b, 1, Len(a))

\* C1: the k-th chat frame a party decrypts yields exactly the plaintext the
\* peer encrypted for its k-th chat frame, in both directions.
C1_DecryptYieldsPeerPlaintext ==
    /\ IsPrefix(cli.recv_plain, srv.sent_plain)
    /\ IsPrefix(srv.recv_plain, cli.sent_plain)

\* both directions carried traffic and the server's second message arrived
C1_Witness ==
    /\ Len(cli.recv_plain) = 2
    /\ cli.recv_plain[1] # cli.recv_plain[2]
    /\ Len(srv.recv_plain) = 1

\* ==================================================================== C2
\* C2: once both parties have computed their shared secret the two values
\* are equal, and equal to g^(a*b) taken either way round.
C2_SharedSecretAgrees ==
    (srv.shared_secret # NoValue /\ cli.shared_secret # NoValue) =>
        /\ srv.shared_secret = cli.shared_secret
        /\ srv.shared_secret =
              mod_exp(mod_exp(G, cli.our_private, P), srv.our_private, P)
        /\ cli.shared_secret =
              mod_exp(mod_exp(G, srv.our_private, P), cli.our_private, P)

\* both secrets computed from two different, non-trivial private keys
C2_Witness ==
    /\ srv.shared_secret # NoValue
    /\ cli.shared_secret # NoValue
    /\ srv.our_private = 2
    /\ cli.our_private = 3

\* ==================================================================== C3
HandshakeDone(p) == p.shared_secret # NoValue
InChat(p) == p.chat_sent > 0 \/ p.sent_plain # << >> \/ p.recv_plain # << >>

C3_HandshakeOrder ==
    \* the server sends its key before it receives the client's
    /\ srv.hs_recv # << >> => Len(srv.hs_sent) = 1
    \* the client receives the server's key before it sends its own
    /\ cli.hs_sent # << >> => Len(cli.hs_recv) = 1
    \* one key frame each way, 8 bytes, the big-endian public key
    /\ \A p \in {srv, cli} :
          /\ Len(p.hs_sent) <= 1
          /\ Len(p.hs_recv) <= 1
          /\ \A i \in 1 .. Len(p.hs_sent) :
                /\ Len(p.hs_sent[i]) = KeyLen
                /\ from_be_bytes(p.hs_sent[i]) = p.our_public
          /\ \A i \in 1 .. Len(p.hs_recv) : Len(p.hs_recv[i]) = KeyLen
          \* both before any chat frame
          /\ InChat(p) => Len(p.hs_sent) = 1 /\ Len(p.hs_recv) = 1
    /\ srv.hs_recv # << >> => srv.hs_recv = cli.hs_sent
    /\ cli.hs_recv # << >> => cli.hs_recv = srv.hs_sent

\* C3: each role's fixed send/receive order, exactly one 8-byte key frame
\* each way before any chat frame, and, on a connection that is not reset,
\* a handshake that completes on both sides.
C3_Handshake ==
    /\ []C3_HandshakeOrder
    /\ (conn # "none") ~> (broken \/ (HandshakeDone(srv) /\ HandshakeDone(cli)))

\* both handshakes complete on a connection that was never reset
C3_Witness ==
    /\ HandshakeDone(srv)
    /\ HandshakeDone(cli)
    /\ ~broken

\* ==================================================================== C4
InLoop(p) == HandshakeDone(p) /\ p.pc # "done"

SameCipherState(p, q) ==
    /\ p.send_keystream = q.send_keystream
    /\ p.recv_keystream = q.recv_keystream
    /\ p.sent_plain = q.sent_plain
    /\ p.chat_sent = q.chat_sent

\* C5: an empty line sends nothing, advances no keystream and leaves the
\* party waiting for the next line, on the server and on the client.
C5_EmptyLineIgnored ==
    [][\A input \in Lines :
          trim(input) = << >> =>
             /\ ServerLine(input) =>
                   /\ s2c' = s2c
                   /\ SameCipherState(srv', srv)
                   /\ srv'.pc = "read"
             /\ ClientLine(input) =>
                   /\ c2s' = c2s
                   /\ SameCipherState(cli', cli)
                   /\ cli'.pc = "read"]_vars

\* ==================================================================== C6
IsQuitLine(input) == trim(input) \in {Quit, Exit}

\* C6: on quit or exit the party ends with Ok, sends no frame and advances
\* no keystream; an ended party takes no further step and writes nothing.
C6_QuitEndsSession ==
    [][/\ \A input \in Lines :
             IsQuitLine(input) =>
                /\ ServerLine(input) =>
                      /\ srv'.pc = "done" /\ srv'.result = "ok"
                      /\ s2c' = s2c
                      /\ SameCipherState(srv', srv)
                /\ ClientLine(input) =>
                      /\ cli'.pc = "done" /\ cli'.result = "ok"
                      /\ c2s' = c2s
                      /\ SameCipherState(cli', cli)
       /\ srv.result = "ok" => srv' = srv /\ Len(s2c') <= Len(s2c)
       /\ cli.result = "ok" => cli' = cli /\ Len(c2s') <= Len(c2s)]_vars

\* the server's operator quit after one message, the client's after none
C6_Witness ==
    /\ srv.result = "ok"
    /\ srv.chat_sent = 1

\* ==================================================================== C7
\* party p, reading `inbound` and writing `outbound`, steps to p2
FatalOnFailure(p, p2, inbound, inbound2, outbound, outbound2, peer) ==
    \* a receive that returns Err
    /\ (/\ p.pc \in {"hs_recv", "recv"}
        /\ CanReceive(inbound, peer)
        /\ ReceiveFails(inbound)
        /\ p2 # p)
          => p2 = [p EXCEPT !.pc = "done", !.result = "err"]
    \* a key send that put no frame on the stream
    /\ (p.pc = "hs_send" /\ p2 # p /\ outbound2 = outbound)
          => p2.pc = "done" /\ p2.result = "err"
    \* a chat send that put no frame on the stream
    /\ (/\ p.pc = "read"
        /\ Len(p2.sent_plain) > Len(p.sent_plain)
        /\ outbound2 = outbound)
          => p2.pc = "done" /\ p2.result = "err"
    \* after the error: no step, nothing written, nothing read
    /\ p.result = "err" =>
          /\ p2 = p
          /\ Len(outbound2) <= Len(outbound)
          /\ IsPrefix(inbound, inbound2)

\* C7: every failed send_message or receive_message ends the party with an
\* error, and the party does nothing afterwards.
C7_IoFailureIsFatal ==
    [][/\ FatalOnFailure(srv, srv', c2s, c2s', s2c, s2c', cli)
       /\ FatalOnFailure(cli, cli', s2c, s2c', c2s, c2s', srv)
       /\ \A p \in {srv', cli'} : p.result = "err" => p.pc = "done"]_vars

\* a reset in the chat loop has ended both parties with an error
C7_Witness ==
    /\ broken
    /\ srv.result = "err"
    /\ cli.result = "err"
    /\ srv.chat_sent >= 1

\* ==================================================================== C8
RECURSIVE SumLen(_)
SumLen(msgs) ==
    IF msgs = << >> THEN 0 ELSE Len(Head(msgs)) + SumLen(Tail(msgs))

\* the generator seeded with `seed` after emitting n bytes
Emitted(seed, n) == get_bytes(LcgNew(seed), n).ks

\* C8: each keystream instance has emitted exactly the bytes of the chat
\* payloads of its direction: the send instance those the party encrypted,
\* the receive instance those it received and decrypted; the two ends of a
\* direction differ by the payloads still on the stream or lost with it.
C8_KeystreamFollowsTraffic ==
    /\ \A p \in {srv, cli} :
          /\ p.send_keystream.position = SumLen(p.sent_plain)
          /\ p.recv_keystream.position = SumLen(p.recv_plain)
          /\ HandshakeDone(p) =>
                /\ p.send_keystream =
                      Emitted(p.shared_secret, SumLen(p.sent_plain))
                /\ p.recv_keystream =
                      Emitted(p.shared_secret, SumLen(p.recv_plain))
    /\ cli.recv_keystream.position <= srv.send_keystream.position
    /\ srv.recv_keystream.position <= cli.send_keystream.position

\* three bytes went from the server to the client and two came back
C8_Witness ==
    /\ srv.send_keystream.position = 3
    /\ cli.recv_keystream.position = 3
    /\ cli.send_keystream.position = 2
    /\ srv.recv_keystream.position = 2

\* ==================================================================== C9
\* C9: with G1 and G2 created from one seed and advanced equally,
\* decrypt(encrypt(x, G1), G2) = x and G1, G2 end in equal states.
C9_CipherRoundTrip ==
    /\ cz.pc \in {"ready", "decrypted"} => cz.g1 = cz.g2
    /\ cz.pc \in {"encrypted", "decrypted"} =>
          cz.g1.position = cz.adv + Len(cz.x)
    /\ cz.pc = "decrypted" => cz.y = cz.x

\* a two-byte plaintext that encryption changed went round, after one byte
\* of earlier traffic
C9_Witness ==
    /\ cz.pc = "decrypted"
    /\ cz.adv = 1
    /\ Len(cz.x) = 2
    /\ cz.c # cz.x

\* =================================================================== C10
\* base^exp mod modulus by exp successive modular multiplications
RECURSIVE NaivePow(_, _, _)
NaivePow(base, exp, modulus) ==
    IF exp = 0 THEN 1 % modulus
    ELSE (NaivePow(base, exp - 1, modulus) * (base % modulus)) % modulus

\* C10: mod_exp returns base^exp mod modulus (0 for modulus 1, 1 for exp 0
\* and modulus > 1) and no product it forms exceeds the u128 accumulator.
C10_ModExpIsPower ==
    /\ me.st.maxprod < U128
    /\ me.pc = "done" =>
          /\ me.ret = NaivePow(me.base, me.exp, me.modulus)
          /\ me.ret = mod_exp(me.base, me.exp, me.modulus)
          /\ me.modulus = 1 => me.ret = 0
          /\ (me.exp = 0 /\ me.modulus > 1) => me.ret = 1

\* a call with the largest base and exponent, modulus P, whose products
\* went beyond the u64 range
C10_Witness ==
    /\ me.pc = "done"
    /\ me.base = U64 - 1
    /\ me.exp = U64 - 1
    /\ me.modulus = P
    /\ me.st.maxprod >= U64

\* =================================================================== C11
\* the frame of a payload shorter than 2^16 bytes, byte by byte
FrameImage(payload) ==
    <<0, 0, Len(payload) \div 256, Len(payload) % 256>> \o payload

RECURSIVE WireImage(_)
WireImage(payloads) ==
    IF payloads = << >> THEN << >>
    ELSE FrameImage(Head(payloads)) \o WireImage(Tail(payloads))

\* C11: what receive_message has returned is what send_message was given,
\* payload by payload and in order, empty payloads included; the stream
\* holds, for each payload written and not yet read, its length as four
\* big-endian bytes followed by its bytes, and a frame is ready to be read
\* exactly when one has been written and not read.
C11_FrameRoundTrip ==
    /\ IsPrefix(fr.got, fr.sent)
    /\ fr.stream = WireImage(SubSeq(fr.sent, Len(fr.got) + 1, Len(fr.sent)))
    /\ FrameReady(fr.stream) <=> Len(fr.got) < Len(fr.sent)
    /\ (fr.todo = << >> /\ ~FrameReady(fr.stream)) => fr.got = fr.sent

\* an empty payload and a two-byte payload went through, in this order
C11_Witness ==
    /\ fr.todo = << >>
    /\ fr.got = fr.sent
    /\ Len(fr.got) = 2
    /\ fr.got[1] = << >>
    /\ Len(fr.got[2]) = 2

\* =================================================================== C12
NoSessionKeys(p) ==
    /\ p.shared_secret = NoValue
    /\ p.preview = << >>
    /\ p.send_keystream = NoKeystream
    /\ p.recv_keystream = NoKeystream

NoChat(p) ==
    /\ p.chat_sent = 0
    /\ p.sent_plain = << >>
    /\ p.recv_plain = << >>
    /\ p.trace = << >>

HandshakeFailure(p) ==
    /\ p.pc = "done"
    /\ p.result \in {"err", "panic"}
    /\ NoSessionKeys(p)
    /\ NoChat(p)

\* party p waits for the peer's key and what it will get is no key: the
\* stream ends or is reset before a whole frame, or the payload is not 8 bytes
KeyFrameBad(p, inbound, peer) ==
    /\ p.pc = "hs_recv"
    /\ CanReceive(inbound, peer)
    /\ \/ ReceiveFails(inbound)
       \/ Len(receive_message(inbound).data) # KeyLen

\* a party that has ended in failure does nothing more on either stream
StaysEnded(p, p2, inbound, inbound2, outbound, outbound2) ==
    (p.pc = "done" /\ p.result \in {"err", "panic"}) =>
        /\ p2 = p
        /\ Len(outbound2) <= Len(outbound)
        /\ IsPrefix(inbound, inbound2)

C12_Failed ==
    \A p \in {srv, cli} :
       /\ (p.hs_recv # << >> /\ Len(p.hs_recv[1]) # KeyLen) =>
             HandshakeFailure(p)
       /\ (p.result \in {"err", "panic"} /\ p.shared_secret = NoValue) =>
             HandshakeFailure(p)

\* C12: a party whose key frame is malformed or does not arrive ends, at
\* that receive, in a fatal failure with no shared secret, no keystream and
\* no chat frame sent or received, and does nothing afterwards.
C12_BadKeyFrameIsFatal ==
    /\ []C12_Failed
    /\ [][/\ (KeyFrameBad(srv, c2s, cli) /\ srv' # srv) =>
                HandshakeFailure(srv')
          /\ (KeyFrameBad(cli, s2c, srv) /\ cli' # cli) =>
                HandshakeFailure(cli')
          /\ StaysEnded(srv, srv', c2s, c2s', s2c, s2c')
          /\ StaysEnded(cli, cli', s2c, s2c', c2s, c2s')]_vars

\* the server was sent a 7-byte payload for the client's key
C12_Witness ==
    /\ srv.result = "panic"
    /\ Len(srv.hs_recv) = 1
    /\ Len(srv.hs_recv[1]) = KeyLen - 1
    /\ Len(srv.hs_sent) = 1

\* =================================================================== C13
Adjacent(a, b) ==
    \/ a[1] = b[1] /\ (a[2] - b[2]) \in {0 - 1, 1}
    \/ a[2] = b[2] /\ (a[1] - b[1]) \in {0 - 1, 1}

\* a path from the top-left to the bottom-right cell, one step at a time
IsPath(grid, path) ==
    /\ path # << >>
    /\ path[1] = Start
    /\ path[Len(path)] = End(grid)
    /\ \A i \in 1 .. Len(path) : path[i] \in Cells(grid)
    /\ \A i \in 1 .. Len(path) - 1 : Adjacent(path[i], path[i + 1])

IsSimple(path) ==
    \A i \in 1 .. Len(path), j \in 1 .. Len(path) : i # j => path[i] # path[j]

\* the sum of the cells entered
RECURSIVE CostUpTo(_, _, _)
CostUpTo(grid, path, n) ==
    IF n <= 1 THEN 0
    ELSE CostUpTo(grid, path, n - 1) + get(grid, path[n][1], path[n][2])

PathCost(grid, path) == CostUpTo(grid, path, Len(path))

\* the costs of all paths from c to the end that enter no cell of `seen`
RECURSIVE SimpleCosts(_, _, _)
SimpleCosts(grid, c, seen) ==
    IF c = End(grid) THEN {0}
    ELSE UNION { { get(grid, n[1], n[2]) + k :
                     k \in SimpleCosts(grid, n, seen \cup {n}) } :
                 n \in { m \in Cells(grid) \ seen : Adjacent(c, m) } }

SetMax(S) == CHOOSE m \in S : \A k \in S : k <= m
SetMin(S) == CHOOSE m \in S : \A k \in S : m <= k

\* C13: dijkstra_max returns the greatest cost of a path that visits no
\* cell twice, and a path that has it.
C13_MaxIsLongest ==
    dj.pc = "done" =>
        /\ dj.max.some
        /\ dj.max.total_cost = SetMax(SimpleCosts(dj.grid, Start, {Start}))
        /\ IsPath(dj.grid, dj.max.path)
        /\ IsSimple(dj.max.path)
        /\ PathCost(dj.grid, dj.max.path) = dj.max.total_cost

\* =================================================================== C14
\* more than any path without a repeated cell can cost
Far(grid) == 256 * grid.width * grid.height

\* the least cost of a walk of at most k steps from the start to each cell
RECURSIVE WalkCost(_, _)
WalkCost(grid, k) ==
    IF k = 0 THEN [c \in Cells(grid) |-> IF c = Start THEN 0 ELSE Far(grid)]
    ELSE LET d == WalkCost(grid, k - 1)
         IN [c \in Cells(grid) |->
               SetMin({d[c]} \cup
                      { d[n] + get(grid, c[1], c[2]) :
                          n \in { m \in Cells(grid) : Adjacent(m, c) } })]

\* no walk is cheaper than the cheapest walk without a repeated cell
MinCost(grid) == WalkCost(grid, grid.width * grid.height)[End(grid)]

\* C14: dijkstra_min returns the least cost of any path, and a path from
\* (0,0) to (width-1,height-1) by steps between adjacent cells that has it.
C14_MinIsShortest ==
    dj.pc \in {"max", "done"} =>
        /\ dj.min.some
        /\ dj.min = dijkstra_min(dj.grid)
        /\ dj.min.total_cost = MinCost(dj.grid)
        /\ dj.min.total_cost = SetMin(SimpleCosts(dj.grid, Start, {Start}))
        /\ IsPath(dj.grid, dj.min.path)
        /\ PathCost(dj.grid, dj.min.path) = dj.min.total_cost

\* on a 3x2 grid the cheapest path goes down first and costs 1
C14_Witness ==
    /\ dj.pc = "done"
    /\ dj.grid.width = 3
    /\ dj.grid.height = 2
    /\ dj.min.total_cost = 1
    /\ dj.min.path = << <<0, 0>>, <<0, 1>>, <<1, 1>>, <<2, 1>> >>
    /\ get(dj.grid, 1, 0) = 255

\* =================================================================== C15
\* byte i (0 the least significant) of a constant below 2^31
ByteOf(v, i) == (v \div (256 ^ i)) % 256

\* x -> (LCG_A * x + LCG_C) mod 2^32 on four bytes, least significant
\* first: schoolbook multiplication with carries, the bytes above the
\* fourth dropped
LcgMap(x) ==
    LET s1 == ByteOf(LCG_A, 0) * x[1] + ByteOf(LCG_C, 0)
        s2 == ByteOf(LCG_A, 0) * x[2] + ByteOf(LCG_A, 1) * x[1]
              + ByteOf(LCG_C, 1) + (s1 \div 256)
        s3 == ByteOf(LCG_A, 0) * x[3] + ByteOf(LCG_A, 1) * x[2]
              + ByteOf(LCG_A, 2) * x[1] + ByteOf(LCG_C, 2) + (s2 \div 256)
        s4 == ByteOf(LCG_A, 0) * x[4] + ByteOf(LCG_A, 1) * x[3]
              + ByteOf(LCG_A, 2) * x[2] + ByteOf(LCG_A, 3) * x[1]
              + ByteOf(LCG_C, 3) + (s3 \div 256)
    IN <<s1 % 256, s2 % 256, s3 % 256, s4 % 256>>

RECURSIVE Iterate(_, _)
Iterate(x, k) == IF k = 0 THEN x ELSE LcgMap(Iterate(x, k - 1))

\* the four bytes of two 16-bit limbs, least significant first
BytesOf(hi, lo) == <<lo % 256, lo \div 256, hi % 256, hi \div 256>>

\* seed mod 2^32, of a seed given as four limbs
Low32(seed) == BytesOf(seed[3], seed[4])

FollowsLcg(seed, g, out) ==
    /\ g.position = Len(out)
    /\ BytesOf(g.state_hi, g.state_lo) = Iterate(Low32(seed), Len(out))
    /\ \A k \in 1 .. Len(out) : out[k] = Iterate(Low32(seed), k)[4]

Min2(a, b) == IF a <= b THEN a ELSE b

\* C15: an instance starts at seed mod 2^32 and its k-th byte is the top
\* byte of the k-th iterate of x -> (1103515245 x + 12345) mod 2^32; two
\* instances whose seeds agree in their low 32 bits emit the same bytes.
C15_KeystreamIsLcg ==
    kz.pc = "run" =>
        /\ FollowsLcg(kz.seed1, kz.g1, kz.out1)
        /\ FollowsLcg(kz.seed2, kz.g2, kz.out2)
        /\ Low32(kz.seed1) = Low32(kz.seed2) =>
              /\ \A k \in 1 .. Min2(Len(kz.out1), Len(kz.out2)) :
                    kz.out1[k] = kz.out2[k]
              /\ Len(kz.out1) = Len(kz.out2) => kz.g1 = kz.g2
        \* a seed below 2^31, as the session passes it
        /\ (kz.seed1[1] = 0 /\ kz.seed1[2] = 0 /\ kz.seed1[3] < Limb \div 2) =>
              LcgNew(kz.seed1[3] * Limb + kz.seed1[4]) = LcgNewWide(kz.seed1)

\* two seeds that differ above bit 31 only have each emitted MaxCalls bytes
C15_Witness ==
    /\ kz.pc = "run"
    /\ kz.seed1 = <<0, 0, 0, 1>>
    /\ kz.seed2 = <<65535, 65535, 0, 1>>
    /\ Len(kz.out1) = MaxCalls
    /\ Len(kz.out2) = MaxCalls
    /\ kz.out1[1] # kz.out1[2]

\* =================================================================== C16
\* C16: once a party of an established connection has ended, the peer ends.
C16_PeerEndsToo ==
    /\ (conn # "none" /\ Closed(srv)) ~> Closed(cli)
    /\ (conn # "none" /\ Closed(cli)) ~> (Closed(srv) \/ srv.eof)

\* the server's operator quit in the chat and the client, waiting for the
\* next message, found the stream at its end
C16_Witness ==
    /\ srv.result = "ok"
    /\ srv.chat_sent >= 1
    /\ cli.result = "err"
    /\ ~broken

\* =================================================================== C17
Sender(dir) == IF dir = "s2c" THEN srv ELSE cli
Receiver(dir) == IF dir = "s2c" THEN cli ELSE srv

\* the position A's outbound keystream had when it encrypted its frame id
EncryptedAt(A, id) ==
    LET i == CHOOSE i \in 1 .. Len(A.trace) :
                A.trace[i].op = "encrypt" /\ A.trace[i].id = id
    IN A.trace[i].position

\* B's j-th trace block is the decryption of a frame
Decrypts(B, j) == B.trace[j].op = "decrypt"

\* payload bytes of the frames before frame id that the network delivered
\* twice, less those of the frames before it that it lost, among the first
\* n things it did
RECURSIVE Shift(_, _, _)
Shift(dir, id, n) ==
    IF n = 0 THEN 0
    ELSE LET f == wire.faults[n]
         IN Shift(dir, id, n - 1)
            + (IF f.dir = dir /\ f.id < id
               THEN (IF f.kind = "twice" THEN f.len ELSE 0 - f.len)
               ELSE 0)

\* how often B had decrypted the frame of its j-th trace block before
EarlierCopies(B, j) ==
    Cardinality({ i \in 1 .. j - 1 :
                    Decrypts(B, i) /\ B.trace[i].id = B.trace[j].id })

\* C17 as claimed: once a chat frame of a direction was lost or delivered
\* twice, every later frame of that direction is decrypted at a position
\* other than the one it was encrypted at.
C17_NeverRealigned ==
    \A dir \in Directions :
       \A j \in 1 .. Len(Receiver(dir).trace) :
          (/\ Decrypts(Receiver(dir), j)
           /\ \E n \in 1 .. Len(wire.faults) :
                 /\ wire.faults[n].dir = dir
                 /\ wire.faults[n].id < Receiver(dir).trace[j].id)
             => Receiver(dir).trace[j].position #
                   EncryptedAt(Sender(dir), Receiver(dir).trace[j].id)

\* C17 as amended: a frame is decrypted at the position it was encrypted
\* at, moved forward by the payload bytes of the earlier frames delivered
\* twice (and of its own earlier deliveries) and back by those of the
\* earlier frames lost; nothing a party does enters into the difference.
C17_Displacement ==
    \A dir \in Directions :
       \A j \in 1 .. Len(Receiver(dir).trace) :
          Decrypts(Receiver(dir), j) =>
             LET id == Receiver(dir).trace[j].id
             IN Receiver(dir).trace[j].position
                   - EncryptedAt(Sender(dir), id) =
                Shift(dir, id, Len(wire.faults))
                   + Len(Sender(dir).sent_plain[id])
                        * EarlierCopies(Receiver(dir), j)

\* the server's first message was delivered twice and its second, sent
\* after a reply, was decrypted one byte further on than it was encrypted
C17_Witness ==
    /\ Len(wire.faults) = 1
    /\ wire.faults[1] = [dir |-> "s2c", kind |-> "twice", id |-> 1, len |-> 1]
    /\ \E j \in 1 .. Len(cli.trace) :
          /\ Decrypts(cli, j)
          /\ cli.trace[j].id = 2
          /\ cli.trace[j].position = EncryptedAt(srv, 2) + 1

\* =================================================================== C18
\* C18: every trace block shows the position its keystream instance had
\* before the message and the key bytes that instance produced for it.
C18_TraceShowsKeystream ==
    \A p \in {srv, cli} :
       \A i \in 1 .. Len(p.trace) :
          /\ p.trace[i].shown_position = p.trace[i].position
          /\ p.trace[i].shown_key = p.trace[i].key

\* =================================================================== C19
ChatFrames(tags) == Len(SelectSeq(tags, LAMBDA id : id # KeyFrame))

\* C19: the client has sent no more chat frames than it has received, the
\* server at most one more than it has received, the server is never
\* behind the client and never more than one frame ahead, and at most one
\* chat frame is on its way.
C19_StrictAlternation ==
    /\ (srv.chat_sent - cli.chat_sent) \in {0, 1}
    /\ cli.chat_sent <= Len(cli.recv_plain)
    /\ srv.chat_sent <= Len(srv.recv_plain) + 1
    /\ ChatFrames(wire.s2c) + ChatFrames(wire.c2s) <= 1
    /\ \A i \in 1 .. Len(cli.recv_plain) : cli.trace[2 * i - 1].id = i
    /\ \A i \in 1 .. Len(srv.recv_plain) : srv.trace[2 * i].id = i

\* three messages from the server, two replies, the third on its way
C19_Witness ==
    /\ srv.chat_sent = 3
    /\ cli.chat_sent = 2
    /\ Len(srv.recv_plain) = 2
    /\ ChatFrames(wire.s2c) = 1

\* =================================================================== C20
InReceive(p) == p.pc \in {"hs_recv", "recv"}

\* C20: with no reset, no failure and no quit, the parties are never both
\* in receive_message while neither stream holds a frame.
C20_NoMutualWait ==
    (~broken /\ srv.result = "running" /\ cli.result = "running") =>
        ~(/\ InReceive(srv)
          /\ InReceive(cli)
          /\ ~FrameReady(s2c)
          /\ ~FrameReady(c2s))

\* =================================================================== C21
\* the key bytes party p XORed with the plaintext bytes it encrypted, in the
\* order it encrypted them
RECURSIVE KeysFrom(_, _)
KeysFrom(trace, op) ==
    IF trace = << >> THEN << >>
    ELSE (IF Head(trace).op = op THEN Head(trace).key ELSE << >>)
         \o KeysFrom(Tail(trace), op)

SendKeys(p) == KeysFrom(p.trace, "encrypt")

\* C21: the k-th key byte of the server's outbound traffic is the k-th key
\* byte of the client's outbound traffic, and both are the k-th byte of a
\* generator seeded with the shared secret.
C21_SameKeyBothWays ==
    /\ \A k \in 1 .. Min2(Len(SendKeys(srv)), Len(SendKeys(cli))) :
          SendKeys(srv)[k] = SendKeys(cli)[k]
    /\ \A p \in {srv, cli} :
          SendKeys(p) # << >> =>
             SendKeys(p) = temp_ks(p.shared_secret, 0, Len(SendKeys(p)))

\* the server sent "a" and "hi", the client "hi": the second key byte met
\* the first byte of a message on one side and the second on the other
C21_Witness ==
    /\ srv.sent_plain = << <<97>>, <<104, 105>> >>
    /\ cli.sent_plain = << <<104, 105>> >>
    /\ Len(SendKeys(srv)) = 3
    /\ Len(SendKeys(cli)) = 2
    /\ SendKeys(srv)[2] = SendKeys(cli)[2]

\* =================================================================== C22
\* C22: a party whose operator's input has reached its end ends its session.
C22_EofEndsSession ==
    /\ srv.eof ~> Closed(srv)
    /\ cli.eof ~> Closed(cli)

====
